---- MODULE Spec2Model ----
(***************************************************************************)
(* Model of the process_query microservice                                 *)
(* (geotest/microservices/process_query/main.py and                        *)
(* geotest/microservices/common/azure_client.py).                          *)
(*                                                                         *)
(* One request is followed through the handler: intent extraction by the   *)
(* assistant, construction of the search payload, the geosearch call, the  *)
(* per-tile aggregation loop and the assembly of the response.             *)
(*                                                                         *)
(* Python values are modelled as tagged records:                           *)
(*   None          [t |-> "none"]                                          *)
(*   True/False    [t |-> "bool", b |-> TRUE]                              *)
(*   int/float     [t |-> "num", n |-> p, q |-> 1 or 2]   the rational p/q *)
(*   float nan     [t |-> "nan"]                                           *)
(*   str           [t |-> "str", s |-> "..."]                              *)
(*   list          [t |-> "list", l |-> <<v1, ..., vn>>]                   *)
(*   dict          [t |-> "dict", d |-> << <<k1, v1>>, ... >>]             *)
(* A dict keeps its pairs in insertion order, as Python does.              *)
(***************************************************************************)
EXTENDS Integers, Sequences, FiniteSets, TLC

\* ------------------------------------------------------------------ bounds

\* Longest tiles array a geosearch response of the model carries.
MaxTiles == 2

\* Box coordinates of the bbox-encoding specification range over
\* -MaxCoord .. MaxCoord.
MaxCoord == 1

\* ------------------------------------------------------- program constants

\* "srid": 4326 of the payload's bbox wrapper.
SRID == 4326

\* requests.post(..., timeout=15)
GeoTimeout == 15

\* HTTPException(status_code=502, ...) for network errors and invalid JSON.
BadGateway == 502

\* resp.status_code != 200
HttpOK == 200

\* ------------------------------------------------------------ Python values

PyNone == [t |-> "none"]
PyNaN == [t |-> "nan"]
PyBool(x) == [t |-> "bool", b |-> x]
\* An integer literal.
N(i) == [t |-> "num", n |-> i, q |-> 1]
S(x) == [t |-> "str", s |-> x]
L(seq) == [t |-> "list", l |-> seq]
D(pairs) == [t |-> "dict", d |-> pairs]

EmptyDict == D(<<>>)
D1(k1, v1) == D(<< <<k1, v1>> >>)
D2(k1, v1, k2, v2) == D(<< <<k1, v1>>, <<k2, v2>> >>)
D3(k1, v1, k2, v2, k3, v3) == D(<< <<k1, v1>>, <<k2, v2>>, <<k3, v3>> >>)
D4(k1, v1, k2, v2, k3, v3, k4, v4) ==
    D(<< <<k1, v1>>, <<k2, v2>>, <<k3, v3>>, <<k4, v4>> >>)
L4(a, b, c, e) == L(<<a, b, c, e>>)

IsNone(v) == v.t = "none"
IsDict(v) == v.t = "dict"
IsList(v) == v.t = "list"
IsStr(v) == v.t = "str"

\* dict.keys()
Keys(v) == {v.d[i][1] : i \in DOMAIN v.d}

\* k in dict
HasKey(v, k) == k \in Keys(v)

\* dict[k] for a key that is present
Item(v, k) == LET i == CHOOSE j \in DOMAIN v.d : v.d[j][1] = k IN v.d[i][2]

\* dict.get(k): None when the key is missing
Get(v, k) == IF HasKey(v, k) THEN Item(v, k) ELSE PyNone

\* dict.get(k, default)
GetOr(v, k, default) == IF HasKey(v, k) THEN Item(v, k) ELSE default

\* Truth value of a Python object (bool(v), "if v", "a or b").
Truthy(v) ==
    CASE v.t = "none" -> FALSE
      [] v.t = "bool" -> v.b
      [] v.t = "num" -> v.n # 0
      [] v.t = "nan" -> TRUE
      [] v.t = "str" -> v.s # ""
      [] v.t = "list" -> Len(v.l) > 0
      [] v.t = "dict" -> Len(v.d) > 0

\* a or b
PyOr(a, b) == IF Truthy(a) THEN a ELSE b

\* Whether float(s) accepts the string, and what it gives. The strings of
\* the model that spell a number are listed; every other string raises.
StrIsFloat(s) == s \in {"1", "2", "nan"}

StrToFloat(s) ==
    CASE s = "1" -> N(1)
      [] s = "2" -> N(2)
      [] s = "nan" -> PyNaN

\* Whether float(v) raises (TypeError or ValueError).
FloatRaises(v) ==
    CASE v.t \in {"num", "nan", "bool"} -> FALSE
      [] v.t = "str" -> ~StrIsFloat(v.s)
      [] OTHER -> TRUE

\* float(v) where it does not raise
Float(v) ==
    CASE v.t = "num" -> v
      [] v.t = "nan" -> v
      [] v.t = "bool" -> N(IF v.b THEN 1 ELSE 0)
      [] v.t = "str" -> StrToFloat(v.s)

\* Whether a value takes part in arithmetic (int, float, bool).
IsNumeric(v) == v.t \in {"num", "nan", "bool"}

\* Whether (a + b) / 2.0 raises: str + str and list + list concatenate and
\* the division then raises; every other non-numeric operand raises at once.
MidRaises(a, b) == ~(IsNumeric(a) /\ IsNumeric(b))

\* (a + b) / 2.0 for numeric operands. The numbers the model feeds it are
\* integers, so the result is an integer or an odd number of halves.
Mid(a, b) ==
    IF a.t = "nan" \/ b.t = "nan"
    THEN PyNaN
    ELSE LET sum == Float(a).n + Float(b).n
         IN  IF sum % 2 = 0
             THEN [t |-> "num", n |-> sum \div 2, q |-> 1]
             ELSE [t |-> "num", n |-> sum, q |-> 2]

\* str(v) for the values the model stringifies.
PyStr(v) ==
    CASE v.t = "str" -> v.s
      [] v.t = "num" -> IF v.q = 1 THEN ToString(v.n) ELSE ToString(v.n) \o "/2"
      [] v.t = "bool" -> IF v.b THEN "True" ELSE "False"
      [] v.t = "none" -> "None"
      [] v.t = "nan" -> "nan"
      [] OTHER -> "<repr>"

\* An exception that propagates out of the code being evaluated. It is no
\* Python value: it marks the result of an expression that did not return.
Raised == [t |-> "raised"]

\* ", " in t and t.split(",")[0], for the type strings of the model.
HasComma(s) == s \in {"image/png,base64", ",base64"}

BeforeComma(s) ==
    CASE s = "image/png,base64" -> "image/png"
      [] s = ",base64" -> ""
      [] OTHER -> s

\* text.strip(), for the assistant texts of the model.
Strip(s) ==
    CASE s = " " -> ""
      [] s = " sorry, no idea " -> "sorry, no idea"
      [] OTHER -> s

\* ------------------------------------------------------ centroid_from_bbox

\* Mutant of CentroidOfFour: the pair is returned longitude first.
CentroidLonFirst(minx, miny, maxx, maxy) ==
    IF MidRaises(minx, maxx) \/ MidRaises(miny, maxy)
    THEN PyNone
    ELSE L(<<Mid(minx, maxx), Mid(miny, maxy)>>)

\* cx = (minx + maxx) / 2.0; cy = (miny + maxy) / 2.0;
\* return [float(cy), float(cx)], and None when the arithmetic raises.
CentroidOfFour(minx, miny, maxx, maxy) ==
    IF MidRaises(minx, maxx) \/ MidRaises(miny, maxy)
    THEN PyNone
    ELSE L(<<Mid(miny, maxy), Mid(minx, maxx)>>)

centroid_from_bbox(bbox) ==
    IF ~Truthy(bbox)
    THEN PyNone
    ELSE IF IsList(bbox) /\ Len(bbox.l) >= 4
    THEN CentroidOfFour(bbox.l[1], bbox.l[2], bbox.l[3], bbox.l[4])
    ELSE IF IsDict(bbox)
    THEN IF {"xmin", "ymin", "xmax", "ymax"} \subseteq Keys(bbox)
         THEN CentroidOfFour(Item(bbox, "xmin"), Item(bbox, "ymin"),
                             Item(bbox, "xmax"), Item(bbox, "ymax"))
         ELSE IF {"left", "bottom", "right", "top"} \subseteq Keys(bbox)
         THEN CentroidOfFour(Item(bbox, "left"), Item(bbox, "bottom"),
                             Item(bbox, "right"), Item(bbox, "top"))
         ELSE PyNone
    ELSE PyNone

\* ------------------------------------------------- the tile loop's body

\* metadata = tile.get("metadata", {}) if isinstance(tile, dict) else {}
TileMetadata(tile) ==
    IF IsDict(tile) THEN GetOr(tile, "metadata", EmptyDict) ELSE EmptyDict

\* raw_bbox as lines 237-243 leave it: metadata.bbox, else metadata.misc.bbox.
\* The test of line 239 asks for raw_bbox to be None and metadata.bbox to be
\* a dict at once, which never holds.
RawBBox(metadata) ==
    LET first == Get(metadata, "bbox")
        second == IF IsNone(first) /\ IsDict(Get(metadata, "bbox"))
                     /\ HasKey(Get(metadata, "bbox"), "bbox")
                  THEN Get(Get(metadata, "bbox"), "bbox")
                  ELSE first
    IN  IF IsNone(second) /\ IsDict(Get(metadata, "misc"))
        THEN Get(Get(metadata, "misc"), "bbox")
        ELSE second

\* if "bbox" in raw_bbox and not isinstance(raw_bbox.get("bbox"), list):
\*     raw_bbox = raw_bbox.get("bbox")
Unwrap(raw_bbox) ==
    IF HasKey(raw_bbox, "bbox") /\ ~IsList(Get(raw_bbox, "bbox"))
    THEN Get(raw_bbox, "bbox")
    ELSE raw_bbox

\* The { min: {x, y}, max: {x, y} } branch: raw_bbox["min"].get("x") raises on
\* a min or max that is no dict, and the except clause leaves bbox_meta None.
MinMaxBox(raw_bbox) ==
    IF ~IsDict(Item(raw_bbox, "min")) \/ ~IsDict(Item(raw_bbox, "max"))
    THEN PyNone
    ELSE LET minx == Get(Item(raw_bbox, "min"), "x")
             miny == Get(Item(raw_bbox, "min"), "y")
             maxx == Get(Item(raw_bbox, "max"), "x")
             maxy == Get(Item(raw_bbox, "max"), "y")
         IN  IF PyNone \notin {minx, miny, maxx, maxy}
             THEN L4(minx, miny, maxx, maxy)
             ELSE PyNone

\* bbox_meta of lines 235-267: a list, None, or Raised when raw_bbox.keys()
\* is evaluated on a value that is no dict (outside every try).
BBoxMeta(metadata) ==
    IF ~IsDict(metadata)
    THEN PyNone
    ELSE LET raw_bbox == RawBBox(metadata)
         IN  IF IsDict(raw_bbox)
             THEN LET inner == Unwrap(raw_bbox)
                  IN  IF IsDict(inner) /\ HasKey(inner, "min") /\ HasKey(inner, "max")
                      THEN MinMaxBox(inner)
                      ELSE IF ~IsDict(inner)
                      THEN Raised
                      ELSE IF {"xmin", "ymin", "xmax", "ymax"} \subseteq Keys(inner)
                      THEN L4(Item(inner, "xmin"), Item(inner, "ymin"),
                              Item(inner, "xmax"), Item(inner, "ymax"))
                      ELSE IF {"left", "bottom", "right", "top"} \subseteq Keys(inner)
                      THEN L4(Item(inner, "left"), Item(inner, "bottom"),
                              Item(inner, "right"), Item(inner, "top"))
                      ELSE PyNone
             ELSE IF IsList(raw_bbox)
             THEN raw_bbox
             ELSE PyNone

\* The first key of the list that is in metadata with a value that is not
\* None gives the value; None when there is none.
RECURSIVE FirstPresent(_, _)
FirstPresent(metadata, keys) ==
    IF keys = <<>>
    THEN PyNone
    ELSE IF HasKey(metadata, Head(keys)) /\ ~IsNone(Item(metadata, Head(keys)))
    THEN Item(metadata, Head(keys))
    ELSE FirstPresent(metadata, Tail(keys))

LatKeys == <<"lat", "latitude", "y">>
LonKeys == <<"lon", "lng", "longitude", "x">>

\* Mutant of FallbackLatLon: a tile without a coordinate gets the placeholder
\* (0, 0) the comment of line 315 considers.
FallbackPlaceholder(metadata) ==
    LET maybe_lat == FirstPresent(metadata, LatKeys)
        maybe_lon == FirstPresent(metadata, LonKeys)
    IN  IF ~IsNone(maybe_lat) /\ ~IsNone(maybe_lon) /\ ~FloatRaises(maybe_lat)
           /\ ~FloatRaises(maybe_lon)
        THEN L(<<Float(maybe_lat), Float(maybe_lon)>>)
        ELSE L(<<N(0), N(0)>>)

\* The fallback of lines 271-286.
FallbackLatLon(metadata) ==
    LET maybe_lat == FirstPresent(metadata, LatKeys)
        maybe_lon == FirstPresent(metadata, LonKeys)
    IN  IF ~IsNone(maybe_lat) /\ ~IsNone(maybe_lon)
        THEN IF FloatRaises(maybe_lat) \/ FloatRaises(maybe_lon)
             THEN PyNone
             ELSE L(<<Float(maybe_lat), Float(maybe_lon)>>)
        ELSE PyNone

\* latlon of a tile when the loop body reaches line 309: a two-element list,
\* None, or Raised.
TileLatLon(tile) ==
    LET metadata == TileMetadata(tile)
        bbox_meta == BBoxMeta(metadata)
    IN  IF bbox_meta = Raised
        THEN Raised
        ELSE LET latlon == centroid_from_bbox(bbox_meta)
             IN  IF ~Truthy(latlon) /\ IsDict(metadata)
                 THEN FallbackLatLon(metadata)
                 ELSE latlon

\* caption_text of lines 288-293
TileCaption(tile) ==
    LET metadata == TileMetadata(tile)
    IN  IF IsDict(metadata) /\ Truthy(Get(metadata, "caption"))
        THEN S(PyStr(Get(metadata, "caption")))
        ELSE S("")

\* thumb of lines 295-307
TileThumb(tile) ==
    LET data_node == IF IsDict(tile) THEN Get(tile, "data") ELSE PyNone
    IN  IF IsDict(data_node) /\ Truthy(Get(data_node, "base64_data"))
        THEN LET ty == Get(data_node, "type")
                 mime == IF Truthy(ty) /\ IsStr(ty) /\ HasComma(ty.s)
                         THEN BeforeComma(ty.s)
                         ELSE "image/jpeg"
             IN  S("data:" \o mime \o ";base64," \o PyStr(Get(data_node, "base64_data")))
        ELSE PyNone

\* -------------------------------------------------------- azure_client.py

\* What build_azure_client reads: whether the openai SDK imported, the
\* endpoint and key the config file gives (None when the file is absent,
\* unreadable or lacks them), the ENDPOINT_URL and AZURE_OPENAI_API_KEY
\* environment variables, and whether the AzureOpenAI constructor raises.
AzureEnvs ==
    [sdk : BOOLEAN,
     cfgEndpoint : {PyNone, S("https://cfg")},
     cfgKey : {PyNone, S("cfgkey")},
     envEndpoint : {PyNone, S("https://env")},
     envKey : {PyNone, S("envkey")},
     ctorRaises : BOOLEAN]

\* The AzureOpenAI client object; the handler only tests it against None.
AzureClient == S("AzureOpenAI")

\* build_azure_client(): the client, or None.
build_azure_client(env) ==
    IF ~env.sdk
    THEN PyNone
    ELSE LET endpoint == IF ~Truthy(env.cfgEndpoint) THEN env.envEndpoint
                         ELSE env.cfgEndpoint
             subscription_key == IF ~Truthy(env.cfgKey) THEN env.envKey
                                 ELSE env.cfgKey
         IN  IF ~Truthy(endpoint) \/ ~Truthy(subscription_key)
             THEN PyNone
             ELSE IF env.ctorRaises
             THEN PyNone
             ELSE AzureClient

\* json.loads did not return: the text is no JSON document.
NoParse == [t |-> "noparse"]

\* A text the assistant returns: raw is the text, whole is what json.loads
\* gives for the stripped text and inner what it gives for the substring from
\* the first "{" to the last "}" (NoParse when it raises, or when there is no
\* such substring).
Text(raw, whole, inner) == [raw |-> raw, whole |-> whole, inner |-> inner]

\* parse_json_or_text(text)
parse_json_or_text(text) ==
    IF text.raw = ""
    THEN S("")
    ELSE IF text.whole # NoParse
    THEN text.whole
    ELSE IF text.inner # NoParse
    THEN text.inner
    ELSE S(Strip(text.raw))

\* ------------------------------------------------ extract_content_and_bbox

Fallback(user_input) ==
    D3("content", user_input, "location", PyNone, "bbox", PyNone)

\* Lines 116-123: a list of at least four values becomes four floats, or
\* None when a float() raises; anything else becomes None.
ValidatedBBox(bbox) ==
    IF IsList(bbox) /\ Len(bbox.l) >= 4
    THEN IF \E i \in 1..4 : FloatRaises(bbox.l[i])
         THEN PyNone
         ELSE L4(Float(bbox.l[1]), Float(bbox.l[2]), Float(bbox.l[3]), Float(bbox.l[4]))
    ELSE PyNone

\* Mutant of IntentOfParsed: content is taken from the object without the
\* "or user_input" default.
IntentWithoutDefault(parsed, user_input) ==
    IF IsDict(parsed)
    THEN D3("content", Get(parsed, "content"),
            "location", PyOr(PyOr(Get(parsed, "location"), Get(parsed, "place")), PyNone),
            "bbox", ValidatedBBox(IF HasKey(parsed, "bbox") THEN Get(parsed, "bbox")
                                  ELSE PyNone))
    ELSE Fallback(user_input)

\* Lines 111-128, given what parse_json_or_text returned.
IntentOfParsed(parsed, user_input) ==
    IF IsDict(parsed)
    THEN LET content == PyOr(PyOr(Get(parsed, "content"), Get(parsed, "query")),
                             user_input)
             location == PyOr(PyOr(Get(parsed, "location"), Get(parsed, "place")),
                              PyNone)
             bbox == IF HasKey(parsed, "bbox") THEN Get(parsed, "bbox") ELSE PyNone
         IN  D3("content", content, "location", location,
                "bbox", ValidatedBBox(bbox))
    ELSE Fallback(user_input)

\* extract_content_and_bbox(user_input), given the client build_azure_client
\* returned and what create_chat_completion does: it raises, or returns a
\* text.
extract_content_and_bbox(user_input, client, reply) ==
    IF IsNone(client)
    THEN Fallback(user_input)
    ELSE IF reply.kind = "raise"
    THEN Fallback(user_input)
    ELSE IntentOfParsed(parse_json_or_text(reply.text), user_input)

\* ------------------------------------------------------- the search payload

\* Lines 155-189: payload = {}, "text" when content is truthy, "bbox" when
\* bbox is truthy and its four values convert to float.
BBoxObj(minx, miny, maxx, maxy) ==
    D2("bbox", D2("min", D2("x", minx, "y", miny),
                  "max", D2("x", maxx, "y", maxy)),
       "srid", N(SRID))

WithText(payload, content) ==
    IF Truthy(content) THEN D(Append(payload.d, <<"text", content>>)) ELSE payload

WithBBox(payload, bbox) ==
    IF Truthy(bbox)
    THEN IF ~IsList(bbox) \/ Len(bbox.l) < 4
            \/ \E i \in 1..4 : FloatRaises(bbox.l[i])
         THEN payload
         ELSE D(Append(payload.d,
                       <<"bbox", BBoxObj(Float(bbox.l[1]), Float(bbox.l[2]),
                                         Float(bbox.l[3]), Float(bbox.l[4]))>>))
    ELSE payload

BuildPayloadOf(content, bbox) == WithBBox(WithText(EmptyDict, content), bbox)

\* ------------------------------------------------------------ environment

\* req.query of the requests of the model: absent, empty, a text.
Queries == {PyNone, S(""), S("parks near Paris")}

Box0022 == L4(N(0), N(0), N(2), N(2))

\* What create_chat_completion does: it raises, or returns one of these texts.
ReplyTexts ==
    { \* the empty string
      Text("", NoParse, NoParse),
      \* prose without braces
      Text(" sorry, no idea ", NoParse, NoParse),
      Text("{\"content\":\"parks\",\"location\":\"Paris\",\"bbox\":[0,0,2,2]}",
           D3("content", S("parks"), "location", S("Paris"), "bbox", Box0022),
           D3("content", S("parks"), "location", S("Paris"), "bbox", Box0022)),
      Text("here you go: {\"content\":\"parks\",\"bbox\":[0,0,2,2]}",
           NoParse, D2("content", S("parks"), "bbox", Box0022)),
      Text("[{\"content\":\"parks\"}]",
           L(<<D1("content", S("parks"))>>), D1("content", S("parks"))),
      Text("42",
           N(42), NoParse),
      Text("{\"location\":\"Paris\"}",
           D1("location", S("Paris")), D1("location", S("Paris"))),
      Text("{\"content\":\"\"}",
           D1("content", S("")), D1("content", S(""))),
      Text("{\"query\":\"museums\",\"place\":\"Rome\"}",
           D2("query", S("museums"), "place", S("Rome")),
           D2("query", S("museums"), "place", S("Rome"))),
      Text("{\"content\":\"parks\",\"bbox\":[0,0,2]}",
           D2("content", S("parks"), "bbox", L(<<N(0), N(0), N(2)>>)),
           D2("content", S("parks"), "bbox", L(<<N(0), N(0), N(2)>>))),
      Text("{\"content\":\"parks\",\"bbox\":[\"abc\",0,1,1]}",
           D2("content", S("parks"), "bbox", L4(S("abc"), N(0), N(1), N(1))),
           D2("content", S("parks"), "bbox", L4(S("abc"), N(0), N(1), N(1)))),
      \* json.loads accepts NaN
      Text("{\"content\":\"parks\",\"bbox\":[NaN,0,1,1]}",
           D2("content", S("parks"), "bbox", L4(PyNaN, N(0), N(1), N(1))),
           D2("content", S("parks"), "bbox", L4(PyNaN, N(0), N(1), N(1)))),
      Text("{\"content\":\"parks\",\"bbox\":[\"nan\",\"1\",\"2\",\"2\"]}",
           D2("content", S("parks"), "bbox", L4(S("nan"), S("1"), S("2"), S("2"))),
           D2("content", S("parks"), "bbox", L4(S("nan"), S("1"), S("2"), S("2")))),
      Text("{\"content\":\"parks\",\"bbox\":{\"xmin\":0,\"ymin\":0,\"xmax\":2,\"ymax\":2}}",
           D2("content", S("parks"),
              "bbox", D4("xmin", N(0), "ymin", N(0), "xmax", N(2), "ymax", N(2))),
           D2("content", S("parks"),
              "bbox", D4("xmin", N(0), "ymin", N(0), "xmax", N(2), "ymax", N(2)))),
      Text("{\"content\":\"parks\",\"bbox\":null}",
           D2("content", S("parks"), "bbox", PyNone),
           D2("content", S("parks"), "bbox", PyNone)),
      \* an inverted box, a fifth value
      Text("{\"content\":\"parks\",\"bbox\":[2,1,-1,0,9]}",
           D2("content", S("parks"), "bbox", L(<<N(2), N(1), N(-1), N(0), N(9)>>)),
           D2("content", S("parks"), "bbox", L(<<N(2), N(1), N(-1), N(0), N(9)>>))) }

NoReply == [kind |-> "none"]

Replies == {[kind |-> "raise"]} \cup {[kind |-> "text", text |-> x] : x \in ReplyTexts}

\* --- tiles

Thumb1 == D2("base64_data", S("QQ=="), "type", S("image/png,base64"))

TileOfMeta(metadata) == D1("metadata", metadata)

\* The four base encodings of a box and the wrapper around one.
AsList(a, b, c, e) == L4(N(a), N(b), N(c), N(e))
AsXMin(a, b, c, e) == D4("xmin", N(a), "ymin", N(b), "xmax", N(c), "ymax", N(e))
AsLeft(a, b, c, e) == D4("left", N(a), "bottom", N(b), "right", N(c), "top", N(e))
AsMinMax(a, b, c, e) ==
    D2("min", D2("x", N(a), "y", N(b)), "max", D2("x", N(c), "y", N(e)))
Wrapped(x) == D1("bbox", x)

\* The tiles of the main specification, one for each shape of record the
\* aggregation loop tells apart.
CoreTiles ==
    { \* a full record: list bbox, caption, thumbnail
      D2("metadata", D2("bbox", AsList(0, 0, 2, 2), "caption", S("Park")),
         "data", Thumb1),
      TileOfMeta(D1("bbox", AsXMin(-1, 0, 2, 1))),
      TileOfMeta(D1("bbox", AsLeft(1, 1, 1, 1))),
      TileOfMeta(D2("bbox", AsMinMax(0, 2, 2, 0), "caption", S("Lake"))),
      \* wrappers
      TileOfMeta(D1("bbox", Wrapped(AsXMin(0, 0, 2, 2)))),
      TileOfMeta(D2("bbox", Wrapped(AsList(0, 0, 2, 2)), "caption", S("Wrapped"))),
      TileOfMeta(D1("bbox", Wrapped(PyNone))),
      TileOfMeta(D1("bbox", Wrapped(S("0,0,2,2")))),
      TileOfMeta(D1("bbox", Wrapped(N(7)))),
      \* metadata.misc.bbox
      TileOfMeta(D1("misc", D1("bbox", AsList(2, 2, 4, 4)))),
      \* explicit lat/lon
      TileOfMeta(D3("lat", N(1), "lon", N(2), "caption", S("Point"))),
      \* no coordinate, yet a caption and a thumbnail
      D2("metadata", D1("caption", S("Orphan")), "data", Thumb1),
      \* malformed records
      S("tile"),
      D1("metadata", S("oops")),
      TileOfMeta(D1("bbox", D1("foo", N(1)))),
      TileOfMeta(D1("bbox", D2("min", N(1), "max", N(2)))),
      TileOfMeta(D1("bbox", L4(S("a"), S("b"), S("c"), S("d")))) }

\* Sequences over a set, of length 0 .. n.
RECURSIVE SeqsUpTo(_, _)
SeqsUpTo(set, n) ==
    IF n = 0
    THEN {<<>>}
    ELSE LET shorter == SeqsUpTo(set, n - 1)
         IN  shorter \cup {Append(x, y) : x \in {z \in shorter : Len(z) = n - 1},
                                                y \in set}

\* --- geosearch

GeoResponse(status, body) == [kind |-> "response", status |-> status, body |-> body]

\* The call raises (connection refused, the 15 s timeout), answers with a
\* status that is not 200, or answers 200 with a body that is no JSON.
GeoFailures ==
    { [kind |-> "error", why |-> "connection"],
      [kind |-> "error", why |-> "timeout", after |-> GeoTimeout],
      GeoResponse(500, D1("detail", S("boom"))),
      GeoResponse(404, NoParse),
      GeoResponse(204, NoParse),
      GeoResponse(HttpOK, NoParse) }

\* 200 with a JSON document that has no tiles array.
GeoOddDocs ==
    { GeoResponse(HttpOK, L(<<>>)),
      GeoResponse(HttpOK, EmptyDict),
      GeoResponse(HttpOK, D1("tiles", PyNone)),
      GeoResponse(HttpOK, D1("tiles", N(3))),
      GeoResponse(HttpOK, D1("tiles", S("ab"))),
      GeoResponse(HttpOK, D1("tiles", D1("a", N(1)))) }

GeoWithTiles(pool, n) ==
    {GeoResponse(HttpOK, D1("tiles", L(ts))) : ts \in SeqsUpTo(pool, n)}

GeoOutcomes == GeoFailures \cup GeoOddDocs \cup GeoWithTiles(CoreTiles, MaxTiles)

\* Whether "for tile in tiles" can start, and what it goes through: the
\* elements of a list, the keys of a dict, the characters of a str. Any other
\* value raises TypeError.
Iterable(v) == v.t \in {"list", "dict", "str"}

Chars(s) ==
    CASE s = "" -> <<>>
      [] s = "ab" -> <<S("a"), S("b")>>

Iter(v) ==
    CASE v.t = "list" -> v.l
      [] v.t = "dict" -> [i \in DOMAIN v.d |-> S(v.d[i][1])]
      [] v.t = "str" -> Chars(v.s)

\* ------------------------------------------------------------------- state

VARIABLES
    pc,              \* the stage of the run
    query,           \* req.query
    client,          \* what build_azure_client returned (None before the call)
    reply,           \* what create_chat_completion did, NoReply before the call
    intent,          \* what extract_content_and_bbox returned, None if not called
    content,         \* the local content of process_query
    bbox,            \* the local bbox of process_query
    payload,         \* the search payload, None until it is built
    posted,          \* the payloads posted to geosearch, in order
    geo,             \* what the geosearch call did, NoReply before the call
    clientBuilds,    \* calls of build_azure_client
    assistantCalls,  \* calls of create_chat_completion
    tiles,           \* the local tiles, None until the search completed
    idx,             \* tiles the loop has gone through
    lat_longs,       \* the three result lists
    captions,
    thumbnails,
    failure,         \* None, the HTTPException raised, or the exception that escaped
    result           \* the response, None until it is returned

vars == <<pc, query, client, reply, intent, content, bbox, payload, posted, geo,
          clientBuilds, assistantCalls, tiles, idx, lat_longs, captions,
          thumbnails, failure, result>>

\* raise HTTPException(status_code=status, ...)
HTTPException(status) == [kind |-> "http", status |-> status]

\* An exception that is no HTTPException leaves the handler.
Unhandled == [kind |-> "unhandled"]

NoFailure == [kind |-> "none"]

Init ==
    /\ pc = "Start"
    /\ query \in Queries
    /\ client = PyNone
    /\ reply = NoReply
    /\ intent = PyNone
    /\ content = PyNone
    /\ bbox = PyNone
    /\ payload = PyNone
    /\ posted = <<>>
    /\ geo = NoReply
    /\ clientBuilds = 0
    /\ assistantCalls = 0
    /\ tiles = PyNone
    /\ idx = 0
    /\ lat_longs = <<>>
    /\ captions = <<>>
    /\ thumbnails = <<>>
    /\ failure = NoFailure
    /\ result = PyNone

\* Lines 148-150 when req.query is falsy: content = req.query or "", bbox = None,
\* and extract_content_and_bbox is not called.
SkipAssistant ==
    /\ pc = "Start"
    /\ ~Truthy(query)
    /\ content' = PyOr(query, S(""))
    /\ bbox' = PyNone
    /\ pc' = "IntentExtracted"
    /\ UNCHANGED <<query, client, reply, intent, payload, posted, geo,
                   clientBuilds, assistantCalls, tiles, idx, lat_longs, captions, thumbnails,
                   failure, result>>

\* Lines 150-153 when req.query is truthy: extract_content_and_bbox builds the
\* client and, if there is one, awaits the assistant.
ExtractIntent ==
    /\ pc = "Start"
    /\ Truthy(query)
    /\ \E env \in AzureEnvs, r \in Replies :
         LET c == build_azure_client(env)
             parsed == extract_content_and_bbox(query, c, r)
         IN  /\ client' = c
             /\ clientBuilds' = clientBuilds + 1
             /\ reply' = IF IsNone(c) THEN NoReply ELSE r
             /\ assistantCalls' = IF IsNone(c) THEN assistantCalls
                                  ELSE assistantCalls + 1
             /\ intent' = parsed
             /\ content' = PyOr(Get(parsed, "content"), PyOr(query, S("")))
             /\ bbox' = Get(parsed, "bbox")
    /\ pc' = "IntentExtracted"
    /\ UNCHANGED <<query, payload, posted, geo, tiles, idx, lat_longs, captions,
                   thumbnails, failure, result>>

\* Lines 155-189
BuildPayload ==
    /\ pc = "IntentExtracted"
    /\ payload' = BuildPayloadOf(content, bbox)
    /\ pc' = "PayloadBuilt"
    /\ UNCHANGED <<query, client, reply, intent, content, bbox, posted, geo,
                   clientBuilds, assistantCalls, tiles, idx, lat_longs, captions,
                   thumbnails, failure, result>>

\* Mutant of SearchFailure: the status of the response is not looked at.
SearchFailureIgnoringStatus(g) ==
    IF g.kind = "error"
    THEN [kind |-> "http", status |-> BadGateway]
    ELSE IF g.body = NoParse
    THEN [kind |-> "http", status |-> BadGateway]
    ELSE [kind |-> "none"]

\* What lines 193-225 make of the geosearch call's outcome g: the failure
\* raised, or none.
SearchFailure(g) ==
    IF g.kind = "error"
    THEN HTTPException(BadGateway)
    ELSE IF g.status # HttpOK
    THEN HTTPException(g.status)
    ELSE IF g.body = NoParse
    THEN HTTPException(BadGateway)
    ELSE NoFailure

\* tiles = data.get("tiles", []) if isinstance(data, dict) else []
TilesOf(data) == IF IsDict(data) THEN GetOr(data, "tiles", L(<<>>)) ELSE L(<<>>)

\* Mutant of PostSearch: a failed first call leaves the handler where it was,
\* so that geosearch is called a second time.
PostSearchRetrying(outcomes) ==
    /\ pc = "PayloadBuilt"
    /\ \E g \in outcomes :
         /\ posted' = Append(posted, payload)
         /\ geo' = g
         /\ IF SearchFailure(g) # NoFailure
            THEN /\ pc' = IF posted = <<>> THEN "PayloadBuilt" ELSE "Failed"
                 /\ failure' = IF posted = <<>> THEN failure ELSE SearchFailure(g)
                 /\ tiles' = tiles
            ELSE /\ pc' = "SearchCompleted"
                 /\ failure' = NoFailure
                 /\ tiles' = TilesOf(g.body)
    /\ UNCHANGED <<query, client, reply, intent, content, bbox, payload,
                   clientBuilds, assistantCalls, idx, lat_longs, captions,
                   thumbnails, result>>

\* Lines 193-225: the one geosearch call and what follows from its outcome.
PostSearch(outcomes) ==
    /\ pc = "PayloadBuilt"
    /\ \E g \in outcomes :
         /\ posted' = Append(posted, payload)
         /\ geo' = g
         /\ failure' = SearchFailure(g)
         /\ IF SearchFailure(g) # NoFailure
            THEN /\ pc' = "Failed"
                 /\ tiles' = tiles
            ELSE /\ pc' = "SearchCompleted"
                 /\ tiles' = TilesOf(g.body)
    /\ UNCHANGED <<query, client, reply, intent, content, bbox, payload,
                   clientBuilds, assistantCalls, idx, lat_longs, captions,
                   thumbnails, result>>

\* "for tile in tiles" on a value that cannot be iterated: TypeError.
IterationRaises ==
    /\ pc = "SearchCompleted"
    /\ ~Iterable(tiles)
    /\ failure' = Unhandled
    /\ pc' = "Failed"
    /\ UNCHANGED <<query, client, reply, intent, content, bbox, payload, posted, geo,
                   clientBuilds, assistantCalls, tiles, idx, lat_longs, captions,
                   thumbnails, result>>

\* Whether the loop body appends the tile's entries (line 310: if latlon).
Pushes(tile) == TileLatLon(tile) # Raised /\ Truthy(TileLatLon(tile))

\* Lines 310-313: the three appends under "if latlon".
PushLatLong(lls, tile) ==
    IF Pushes(tile)
    THEN Append(lls, L(<<Float(TileLatLon(tile).l[1]), Float(TileLatLon(tile).l[2])>>))
    ELSE lls

\* Mutant of PushCaption: the caption is appended outside "if latlon".
PushCaptionAlways(caps, tile) == Append(caps, TileCaption(tile))

PushCaption(caps, tile) ==
    IF Pushes(tile) THEN Append(caps, TileCaption(tile)) ELSE caps

PushThumbnail(thumbs, tile) ==
    IF Pushes(tile) THEN Append(thumbs, TileThumb(tile)) ELSE thumbs

\* One pass of the loop body, lines 227-317.
AggregateTile ==
    /\ pc = "SearchCompleted"
    /\ Iterable(tiles)
    /\ idx < Len(Iter(tiles))
    /\ LET tile == Iter(tiles)[idx + 1]
           latlon == TileLatLon(tile)
       IN  IF latlon = Raised
           THEN /\ failure' = Unhandled
                /\ pc' = "Failed"
                /\ UNCHANGED <<idx, lat_longs, captions, thumbnails>>
           ELSE /\ idx' = idx + 1
                /\ lat_longs' = PushLatLong(lat_longs, tile)
                /\ captions' = PushCaption(captions, tile)
                /\ thumbnails' = PushThumbnail(thumbnails, tile)
                /\ UNCHANGED <<pc, failure>>
    /\ UNCHANGED <<query, client, reply, intent, content, bbox, payload, posted, geo,
                   clientBuilds, assistantCalls, tiles, result>>

\* The loop ends.
FinishAggregation ==
    /\ pc = "SearchCompleted"
    /\ Iterable(tiles)
    /\ idx = Len(Iter(tiles))
    /\ pc' = "ResultsAggregated"
    /\ UNCHANGED <<query, client, reply, intent, content, bbox, payload, posted, geo,
                   clientBuilds, assistantCalls, tiles, idx, lat_longs, captions,
                   thumbnails, failure, result>>

\* Mutant of Response: input_caption is the original query, not the content.
ResponseWithQuery(lls, text, caps, thumbs) ==
    D4("lat_longs", L(lls),
       "input_caption", PyOr(query, S("")),
       "captions", L(caps),
       "thumbnails", L(thumbs))

\* The result dict of lines 319-324.
Response(lls, text, caps, thumbs) ==
    D4("lat_longs", L(lls),
       "input_caption", PyOr(text, S("")),
       "captions", L(caps),
       "thumbnails", L(thumbs))

\* Lines 319-326
Respond ==
    /\ pc = "ResultsAggregated"
    /\ result' = Response(lat_longs, content, captions, thumbnails)
    /\ pc' = "Done"
    /\ UNCHANGED <<query, client, reply, intent, content, bbox, payload, posted, geo,
                   clientBuilds, assistantCalls, tiles, idx, lat_longs, captions,
                   thumbnails, failure>>

Next ==
    \/ SkipAssistant
    \/ ExtractIntent
    \/ BuildPayload
    \/ PostSearch(GeoOutcomes)
    \/ IterationRaises
    \/ AggregateTile
    \/ FinishAggregation
    \/ Respond

Spec == Init /\ [][Next]_vars

\* --- the same handler, with geosearch answering with boxes in every encoding

Coords == (0 - MaxCoord) .. MaxCoord

Boxes == {<<a, b, c, e>> : a \in Coords, b \in Coords, c \in Coords, e \in Coords}

BoxTile(x) == TileOfMeta(D1("bbox", x))

\* One box as four tiles, one for each base encoding.
EncodingTiles(b) ==
    << BoxTile(AsList(b[1], b[2], b[3], b[4])),
       BoxTile(AsXMin(b[1], b[2], b[3], b[4])),
       BoxTile(AsLeft(b[1], b[2], b[3], b[4])),
       BoxTile(AsMinMax(b[1], b[2], b[3], b[4])) >>

\* A tile with metadata.bbox = X followed by one with metadata.bbox = {bbox: X}.
WrapperPair(x) == << BoxTile(x), BoxTile(Wrapped(x)) >>

WrapperPairs(b) ==
    { WrapperPair(AsList(b[1], b[2], b[3], b[4])),
      WrapperPair(AsXMin(b[1], b[2], b[3], b[4])),
      WrapperPair(AsLeft(b[1], b[2], b[3], b[4])),
      WrapperPair(AsMinMax(b[1], b[2], b[3], b[4])) }

BoxOutcomes ==
    GeoFailures \cup GeoOddDocs
    \cup {GeoResponse(HttpOK, D1("tiles", L(EncodingTiles(b)))) : b \in Boxes}
    \cup {GeoResponse(HttpOK, D1("tiles", L(ts))) : ts \in UNION {WrapperPairs(b) : b \in Boxes}}

NextBox ==
    \/ SkipAssistant
    \/ ExtractIntent
    \/ BuildPayload
    \/ PostSearch(BoxOutcomes)
    \/ IterationRaises
    \/ AggregateTile
    \/ FinishAggregation
    \/ Respond

SpecBox == Init /\ [][NextBox]_vars

\* --- the same handler, with geosearch answering with one tile that probes
\* --- the caption and the order in which a coordinate is looked for

CaptionTile(caption) ==
    TileOfMeta(D2("bbox", AsList(0, 0, 2, 2), "caption", caption))

\* Usable tiles whose metadata.caption is falsy, null, missing or truthy.
CaptionTiles ==
    { CaptionTile(N(0)),
      CaptionTile(PyBool(FALSE)),
      CaptionTile(S("")),
      CaptionTile(PyNone),
      BoxTile(AsList(0, 0, 2, 2)),
      CaptionTile(S("Park")),
      CaptionTile(N(7)),
      CaptionTile(PyBool(TRUE)),
      \* an explicit lat/lon pair and no caption
      TileOfMeta(D2("lat", N(1), "lon", N(2))) }

\* Tiles with more than one source of a coordinate.
PriorityTiles ==
    { \* a bbox and a lat/lon pair
      TileOfMeta(D3("bbox", AsList(0, 0, 2, 2), "lat", N(5), "lon", N(6))),
      \* an unrecognized metadata.bbox and a metadata.misc.bbox
      TileOfMeta(D2("bbox", D1("foo", N(1)), "misc", D1("bbox", AsList(2, 2, 4, 4)))),
      \* an unrecognized metadata.bbox and a lat/lon pair
      TileOfMeta(D3("bbox", D1("foo", N(1)), "lat", N(5), "lon", N(6))),
      \* a bbox of three values and a lat/lon pair
      TileOfMeta(D3("bbox", L(<<N(0), N(0), N(2)>>), "lat", N(5), "lon", N(6))),
      \* metadata.misc.bbox and a lat/lon pair
      TileOfMeta(D3("misc", D1("bbox", AsXMin(2, 2, 4, 4)), "lat", N(5), "lon", N(6))),
      \* metadata.bbox null and a metadata.misc.bbox
      TileOfMeta(D2("bbox", PyNone, "misc", D1("bbox", AsList(2, 2, 4, 4)))),
      \* every latitude and longitude key, stored in another order
      TileOfMeta(D(<< <<"y", N(9)>>, <<"latitude", N(7)>>, <<"lat", N(5)>>,
                      <<"x", N(8)>>, <<"longitude", N(4)>>, <<"lng", N(3)>>,
                      <<"lon", N(6)>> >>)),
      \* lat null, then latitude
      TileOfMeta(D3("lat", PyNone, "latitude", N(7), "lng", N(3))),
      \* y and x only
      TileOfMeta(D2("y", N(9), "x", N(8))),
      \* a latitude without a longitude
      TileOfMeta(D1("lat", N(5))),
      \* lat is a text, latitude a number
      TileOfMeta(D3("lat", S("abc"), "latitude", N(7), "lon", N(6))),
      \* wrappers and a lat/lon pair
      TileOfMeta(D3("bbox", Wrapped(AsList(0, 0, 2, 2)), "lat", N(5), "lon", N(6))),
      TileOfMeta(D3("bbox", Wrapped(AsXMin(0, 0, 2, 4)), "lat", N(5), "lon", N(6))) }

DetailOutcomes ==
    GeoFailures \cup GeoOddDocs
    \cup {GeoResponse(HttpOK, D1("tiles", L(<<tile>>))) : tile \in CaptionTiles \cup PriorityTiles}

NextDetail ==
    \/ SkipAssistant
    \/ ExtractIntent
    \/ BuildPayload
    \/ PostSearch(DetailOutcomes)
    \/ IterationRaises
    \/ AggregateTile
    \/ FinishAggregation
    \/ Respond

SpecDetail == Init /\ [][NextDetail]_vars

\* ================================================================== claims

\* The tiles the loop has gone through.
Processed == IF Iterable(tiles) THEN SubSeq(Iter(tiles), 1, idx) ELSE <<>>

\* The lists of the response.
OutLatLongs == Get(result, "lat_longs").l
OutCaptions == Get(result, "captions").l
OutThumbnails == Get(result, "thumbnails").l

\* C1: after any prefix of the tiles array, and in every response, lat_longs,
\* captions and thumbnails have the same length, and entry i of each is the
\* coordinate, the caption and the thumbnail of the same tile: the i-th tile
\* of the prefix that was given entries at all.
C1_SequencesAligned ==
    /\ Len(lat_longs) = Len(captions)
    /\ Len(captions) = Len(thumbnails)
    /\ LET used == SelectSeq(Processed, Pushes)
       IN  /\ Len(lat_longs) = Len(used)
           /\ \A i \in 1 .. Len(captions) :
                /\ i <= Len(used)
                /\ lat_longs[i] = TileLatLon(used[i])
                /\ captions[i] = TileCaption(used[i])
                /\ thumbnails[i] = TileThumb(used[i])
    /\ pc = "Done" =>
         /\ OutLatLongs = lat_longs
         /\ OutCaptions = captions
         /\ OutThumbnails = thumbnails

\* Two tiles went into the response, with different captions and thumbnails.
C1_Witness ==
    /\ pc = "Done"
    /\ Len(OutLatLongs) = 2
    /\ OutCaptions[1] # OutCaptions[2]
    /\ OutThumbnails[1] # OutThumbnails[2]

\* A tile that carries no bbox under metadata or metadata.misc and lacks a
\* latitude key or a longitude key (or is no record at all).
LacksCoordinates(tile) ==
    \/ ~IsDict(tile)
    \/ ~IsDict(TileMetadata(tile))
    \/ LET m == TileMetadata(tile)
       IN  /\ ~HasKey(m, "bbox")
           /\ ~(IsDict(Get(m, "misc")) /\ HasKey(Get(m, "misc"), "bbox"))
           /\ \/ \A k \in {"lat", "latitude", "y"} : ~HasKey(m, k)
              \/ \A k \in {"lon", "lng", "longitude", "x"} : ~HasKey(m, k)

\* C2: in every response the three lists hold, in the order of the tiles
\* array, the entries of exactly the tiles that yield a coordinate; a tile
\* from which no coordinate can be derived has no entry, whatever caption or
\* thumbnail it carries.
C2_UnusableTilesDropped ==
    pc = "Done" =>
      LET kept == SelectSeq(Iter(tiles), Pushes)
      IN  /\ Len(OutLatLongs) = Len(kept)
          /\ Len(OutCaptions) = Len(kept)
          /\ Len(OutThumbnails) = Len(kept)
          /\ \A i \in 1 .. Len(kept) :
               /\ OutLatLongs[i] = TileLatLon(kept[i])
               /\ OutCaptions[i] = TileCaption(kept[i])
               /\ OutThumbnails[i] = TileThumb(kept[i])
          /\ Len(OutLatLongs)
               <= Cardinality({i \in 1 .. Len(Iter(tiles)) :
                                 ~LacksCoordinates(Iter(tiles)[i])})

\* [tileA, tileB_unusable], where tileB has a caption and a thumbnail, gave
\* lists of length 1.
C2_Witness ==
    /\ pc = "Done"
    /\ IsList(tiles)
    /\ Len(tiles.l) = 2
    /\ ~LacksCoordinates(tiles.l[1])
    /\ LacksCoordinates(tiles.l[2])
    /\ TileCaption(tiles.l[2]) # S("")
    /\ TileThumb(tiles.l[2]) # PyNone
    /\ Len(OutLatLongs) = 1
    /\ OutLatLongs[1] = TileLatLon(tiles.l[1])

ParsedReply == IF reply.kind = "text" THEN parse_json_or_text(reply.text) ELSE PyNone

\* The client is unconfigured, the call raised, or the output has no
\* parseable JSON object.
NoObjectFromAssistant == IsNone(client) \/ reply.kind = "raise" \/ ~IsDict(ParsedReply)

\* The output object lacks content, or its content is empty.
ObjectLacksContent == IsDict(ParsedReply) /\ ~Truthy(Get(ParsedReply, "content"))

\* C4 as claimed: for a non-empty query the stage yields a non-empty content,
\* and in each of the listed cases, the object without content among them,
\* the intent is {content: query, location: none, bbox: none}.
C4_Original ==
    (Truthy(query) /\ pc # "Start") =>
      /\ Truthy(Get(intent, "content"))
      /\ (NoObjectFromAssistant \/ ObjectLacksContent) => intent = Fallback(query)

\* C4, amended: for a non-empty query the stage never fails the request and
\* yields a non-empty content, and the run goes on to the geosearch call.
\* Without a client, a reply or a JSON object the intent is {content: query,
\* location: none, bbox: none}; for an object without content only content
\* falls back, to the object's non-empty "query" or else to the query text,
\* and location and bbox are those of the object.
C4_IntentNeverEmpty ==
    (Truthy(query) /\ pc # "Start") =>
      /\ IsDict(intent)
      /\ Truthy(Get(intent, "content"))
      /\ content = Get(intent, "content")
      /\ NoObjectFromAssistant => intent = Fallback(query)
      /\ ObjectLacksContent =>
           /\ Get(intent, "content") = PyOr(Get(ParsedReply, "query"), query)
           /\ Get(intent, "location")
                = PyOr(PyOr(Get(ParsedReply, "location"), Get(ParsedReply, "place")),
                       PyNone)
           /\ Get(intent, "bbox") = ValidatedBBox(Get(ParsedReply, "bbox"))
      /\ pc = "IntentExtracted" => (failure = NoFailure /\ ENABLED BuildPayload)
      /\ pc = "PayloadBuilt" =>
           /\ failure = NoFailure
           /\ HasKey(payload, "text")
           /\ ENABLED PostSearch(GeoFailures)
      /\ pc \notin {"IntentExtracted", "PayloadBuilt"} => Len(posted) = 1

\* The assistant answered {"location":"Paris"}: the content is the query
\* text, the location is kept, and the search was posted.
C4_Witness ==
    /\ Truthy(query)
    /\ ObjectLacksContent
    /\ ~HasKey(ParsedReply, "query")
    /\ Get(intent, "content") = query
    /\ Get(intent, "location") = S("Paris")
    /\ Len(posted) = 1

\* Geosearch answered 200 with a JSON object whose tiles field is an array.
SearchSucceeded ==
    /\ geo.kind = "response"
    /\ geo.status = 200
    /\ geo.body # NoParse
    /\ IsDict(geo.body)
    /\ IsList(Get(geo.body, "tiles"))

\* C5: after a successful geosearch response the run never fails, whatever
\* the shape of the tile records: a malformed record is skipped.
C5_MalformedTileNeverFails == SearchSucceeded => failure = NoFailure

\* C6: for an absent or empty query no client is built and the assistant is
\* not called, the payload has neither text nor bbox, and input_caption is
\* the empty string; in every other response input_caption is the content of
\* the extracted intent.
C6_EmptyQuerySkipsAssistant ==
    /\ ~Truthy(query) =>
         /\ clientBuilds = 0
         /\ assistantCalls = 0
         /\ client = PyNone /\ reply = NoReply /\ intent = PyNone
         /\ payload # PyNone => (~HasKey(payload, "text") /\ ~HasKey(payload, "bbox"))
         /\ \A i \in 1 .. Len(posted) : posted[i] = EmptyDict
         /\ pc = "Done" => Get(result, "input_caption") = S("")
    /\ (Truthy(query) /\ pc = "Done") =>
         /\ clientBuilds = 1
         /\ Get(result, "input_caption") = Get(intent, "content")

\* The empty query went through to a response with input_caption "" and an
\* empty payload.
C6_Witness ==
    /\ query = S("")
    /\ pc = "Done"
    /\ posted = <<EmptyDict>>
    /\ Get(result, "input_caption") = S("")
    /\ assistantCalls = 0

\* Geosearch answered 200 with a JSON document without a tiles array.
SearchWithoutTilesArray ==
    /\ geo.kind = "response"
    /\ geo.status = 200
    /\ geo.body # NoParse
    /\ \/ ~IsDict(geo.body)
       \/ ~HasKey(geo.body, "tiles")
       \/ ~IsList(Get(geo.body, "tiles"))

\* C7: a JSON response without a tiles field, with a tiles field that is no
\* array, or that is no object, is an empty tile list: the run does not fail
\* and the response has three empty lists.
C7_NoTilesArrayIsEmpty ==
    SearchWithoutTilesArray =>
      /\ failure = NoFailure
      /\ pc = "Done" =>
           (OutLatLongs = <<>> /\ OutCaptions = <<>> /\ OutThumbnails = <<>>)

\* The tiles array is one box in the four base encodings, list first.
IsEncodingRun ==
    /\ IsList(tiles)
    /\ Len(tiles.l) = 4
    /\ IsList(Get(TileMetadata(tiles.l[1]), "bbox"))
    /\ LET l == Get(TileMetadata(tiles.l[1]), "bbox").l
       IN  tiles.l = EncodingTiles(<<l[1].n, l[2].n, l[3].n, l[4].n>>)

\* The box of an encoding run: (minX, minY, maxX, maxY).
RunBox ==
    LET l == Get(TileMetadata(tiles.l[1]), "bbox").l
    IN  <<l[1].n, l[2].n, l[3].n, l[4].n>>

\* c is the number sum / 2.
IsHalfOf(c, sum) == c.t = "num" /\ c.q \in {1, 2} /\ 2 * c.n = sum * c.q

\* C8: for every box, inverted ones included, the four base encodings of the
\* box give the same coordinate, [(minY + maxY) / 2, (minX + maxX) / 2].
C8_EncodingsAgree ==
    (pc = "Done" /\ IsEncodingRun) =>
      /\ Len(OutLatLongs) = 4
      /\ \A i \in 1 .. 4 :
           /\ OutLatLongs[i] = OutLatLongs[1]
           /\ IsList(OutLatLongs[i])
           /\ Len(OutLatLongs[i].l) = 2
           /\ IsHalfOf(OutLatLongs[i].l[1], RunBox[2] + RunBox[4])
           /\ IsHalfOf(OutLatLongs[i].l[2], RunBox[1] + RunBox[3])

\* An inverted box whose latitude and longitude midpoints differ went
\* through in all four encodings.
C8_Witness ==
    /\ pc = "Done"
    /\ IsEncodingRun
    /\ RunBox[1] > RunBox[3]
    /\ RunBox[2] + RunBox[4] # RunBox[1] + RunBox[3]
    /\ Len(OutLatLongs) = 4

\* The first four values of the bbox of the assistant's object are numbers
\* and finite.
FourFinite(b) ==
    /\ IsList(b)
    /\ Len(b.l) >= 4
    /\ \A i \in 1 .. 4 : b.l[i].t = "num"

AssistantBBox == IF IsDict(ParsedReply) THEN Get(ParsedReply, "bbox") ELSE PyNone

\* C9: the payload has a bbox key only when the intent's bbox is four finite
\* numbers, and then its value is {bbox: {min: {x, y}, max: {x, y}},
\* srid: 4326}; a missing, short, non-numeric or non-finite bbox of the
\* assistant leaves the payload without bbox.
C9_BBoxOnlyWhenFinite ==
    payload # PyNone =>
      /\ HasKey(payload, "bbox") =>
           /\ FourFinite(bbox)
           /\ Get(payload, "bbox")
                = D2("bbox", D2("min", D2("x", bbox.l[1], "y", bbox.l[2]),
                                "max", D2("x", bbox.l[3], "y", bbox.l[4])),
                     "srid", N(4326))
      /\ ~FourFinite(AssistantBBox) => ~HasKey(payload, "bbox")

\* The tiles array is a tile with metadata.bbox = X followed by a tile with
\* metadata.bbox = {bbox: X}.
IsWrapperPair ==
    /\ IsList(tiles)
    /\ Len(tiles.l) = 2
    /\ tiles.l = WrapperPair(Get(TileMetadata(tiles.l[1]), "bbox"))

\* C10: a tile whose metadata.bbox is {bbox: X}, X in any of the four base
\* encodings, yields the coordinate the tile with metadata.bbox = X yields.
C10_WrapperUnwrapped ==
    (pc = "Done" /\ IsWrapperPair) =>
      /\ Len(OutLatLongs) = 2
      /\ OutLatLongs[1] = OutLatLongs[2]

\* The tiles of the prefix that were given entries, in order.
Used == SelectSeq(Processed, Pushes)

\* The caption the claim gives a tile: the string form of metadata.caption
\* when the field exists and is not null, else the empty string.
ClaimedCaption(tile) ==
    LET m == TileMetadata(tile)
    IN  IF IsDict(m) /\ HasKey(m, "caption") /\ ~IsNone(Item(m, "caption"))
        THEN S(PyStr(Item(m, "caption")))
        ELSE S("")

\* C11: the caption of every tile that was given entries is the string form
\* of metadata.caption when that field exists and is not null, falsy values
\* (0, false, "") included, and "" only when it is missing or null.
C11_CaptionStringified ==
    \A i \in 1 .. Len(captions) :
      i <= Len(Used) => captions[i] = ClaimedCaption(Used[i])

\* The four values of a box in one of the base encodings (list,
\* {xmin, ymin, xmax, ymax}, {left, bottom, right, top}, {min: {x, y},
\* max: {x, y}}), << >> when the value has none of these shapes.
BaseBox(x) ==
    IF IsList(x)
    THEN IF Len(x.l) >= 4 THEN <<x.l[1], x.l[2], x.l[3], x.l[4]>> ELSE << >>
    ELSE IF ~IsDict(x)
    THEN << >>
    ELSE IF {"xmin", "ymin", "xmax", "ymax"} \subseteq Keys(x)
    THEN <<Item(x, "xmin"), Item(x, "ymin"), Item(x, "xmax"), Item(x, "ymax")>>
    ELSE IF {"left", "bottom", "right", "top"} \subseteq Keys(x)
    THEN <<Item(x, "left"), Item(x, "bottom"), Item(x, "right"), Item(x, "top")>>
    ELSE IF /\ {"min", "max"} \subseteq Keys(x)
            /\ IsDict(Item(x, "min")) /\ IsDict(Item(x, "max"))
            /\ {"x", "y"} \subseteq Keys(Item(x, "min"))
            /\ {"x", "y"} \subseteq Keys(Item(x, "max"))
    THEN <<Item(Item(x, "min"), "x"), Item(Item(x, "min"), "y"),
           Item(Item(x, "max"), "x"), Item(Item(x, "max"), "y")>>
    ELSE << >>

FourNumbers(b) == Len(b) = 4 /\ \A i \in 1 .. 4 : b[i].t = "num"

\* The box a bbox value normalizes to: a base encoding of four numbers, or a
\* wrapper {bbox: X} around one; << >> when it does not normalize.
NormalizedBox(x) ==
    IF FourNumbers(BaseBox(x))
    THEN BaseBox(x)
    ELSE IF IsDict(x) /\ HasKey(x, "bbox") /\ FourNumbers(BaseBox(Item(x, "bbox")))
    THEN BaseBox(Item(x, "bbox"))
    ELSE << >>

\* metadata.bbox, or metadata.misc.bbox when metadata.bbox is absent (or null).
BBoxCandidate(m) ==
    IF HasKey(m, "bbox") /\ ~IsNone(Item(m, "bbox"))
    THEN Item(m, "bbox")
    ELSE IF IsDict(Get(m, "misc")) THEN Get(Get(m, "misc"), "bbox") ELSE PyNone

\* The value under the first key of the sequence that is present (and not
\* null), None when there is none.
FirstKeyValue(m, keys) ==
    LET present == {i \in DOMAIN keys : HasKey(m, keys[i]) /\ ~IsNone(Item(m, keys[i]))}
    IN  IF present = {}
        THEN PyNone
        ELSE Item(m, keys[CHOOSE i \in present : \A j \in present : i <= j])

\* The number sum / 2.
HalfOf(sum) ==
    IF sum % 2 = 0
    THEN [t |-> "num", n |-> sum \div 2, q |-> 1]
    ELSE [t |-> "num", n |-> sum, q |-> 2]

\* The coordinate the claim gives a tile, None when it gives none.
ClaimedCoordinate(tile) ==
    LET m == TileMetadata(tile)
    IN  IF ~IsDict(m)
        THEN PyNone
        ELSE LET b == NormalizedBox(BBoxCandidate(m))
                 lat == FirstKeyValue(m, <<"lat", "latitude", "y">>)
                 lon == FirstKeyValue(m, <<"lon", "lng", "longitude", "x">>)
             IN  IF b # << >>
                 THEN L(<<HalfOf(b[2].n + b[4].n), HalfOf(b[1].n + b[3].n)>>)
                 ELSE IF lat.t = "num" /\ lon.t = "num"
                 THEN L(<<lat, lon>>)
                 ELSE PyNone

HasClaimedCoordinate(tile) == ClaimedCoordinate(tile) # PyNone

\* C12: the coordinate of a tile is the centroid of the bbox under
\* metadata.bbox (metadata.misc.bbox only when metadata.bbox is absent) when
\* that bbox normalizes, whatever lat/lon fields there are; otherwise it is
\* the pair under the first of lat, latitude, y and the first of lon, lng,
\* longitude, x when both are present and numeric; otherwise there is none.
C12_CoordinatePriority ==
    LET usable == SelectSeq(Processed, HasClaimedCoordinate)
    IN  /\ Len(lat_longs) = Len(usable)
        /\ \A i \in 1 .. Len(lat_longs) :
             i <= Len(usable) => lat_longs[i] = ClaimedCoordinate(usable[i])

\* C12 for the tiles whose bbox is no wrapper: there the code does what the
\* claim says.
C12_HoldsWithoutWrapper ==
    (\A i \in 1 .. Len(Processed) :
        LET m == TileMetadata(Processed[i])
        IN  ~(IsDict(m) /\ IsDict(BBoxCandidate(m)) /\ HasKey(BBoxCandidate(m), "bbox")))
    => C12_CoordinatePriority

\* The object the extractor is claimed to return for a text: what the whole
\* text parses to when that is an object, else what the substring from the
\* first "{" to the last "}" parses to when that is an object, else nothing.
ClaimedObject(text) ==
    IF IsDict(text.whole)
    THEN text.whole
    ELSE IF IsDict(text.inner) THEN text.inner ELSE PyNone

\* C13: once the assistant has returned a text, what the extractor returned is
\* a JSON object or nothing (the code's "nothing" being the text itself),
\* never an array or a number; it is the whole text's object, or else the
\* object between the first "{" and the last "}" even when the whole text
\* parses to something that is no object; and the intent is built from that
\* object, the fallback being used only when there is none.
C13_ObjectOrNothing ==
    reply.kind = "text" =>
      /\ IsDict(ParsedReply) \/ IsStr(ParsedReply)
      /\ IsDict(ClaimedObject(reply.text)) => ParsedReply = ClaimedObject(reply.text)
      /\ intent = IntentOfParsed(ClaimedObject(reply.text), query)

\* C13 when the whole text does not parse to an array or a number: there the
\* extractor does what the claim says.
C13_HoldsUnlessWholeIsOtherValue ==
    (reply.kind = "text" /\ (reply.text.whole = NoParse \/ IsDict(reply.text.whole)))
    => C13_ObjectOrNothing

\* The place of a stage in the order of the handler; a failed run has left it.
StageRank(stage) ==
    CASE stage = "Start" -> 0
      [] stage = "IntentExtracted" -> 1
      [] stage = "PayloadBuilt" -> 2
      [] stage = "SearchCompleted" -> 3
      [] stage = "ResultsAggregated" -> 4
      [] stage = "Done" -> 5
      [] stage = "Failed" -> 6

\* One step of the handler keeps the order of the stages.
C14_Step ==
    \* The stage stays, moves to the next one, or the run fails.
    /\ pc' # pc => pc' = "Failed" \/ StageRank(pc') = StageRank(pc) + 1
    \* A run that has ended does nothing more.
    /\ pc \in {"Done", "Failed"} => UNCHANGED vars
    \* The assistant: at most one call, before the payload is built.
    /\ assistantCalls' # assistantCalls =>
         pc = "Start" /\ assistantCalls = 0 /\ assistantCalls' = 1
    \* Geosearch: at most one call, after the payload is built.
    /\ posted' # posted =>
         pc = "PayloadBuilt" /\ posted = <<>> /\ posted' = <<payload>>
    \* A fatal search error ends the run.
    /\ (posted' # posted /\ SearchFailure(geo') # NoFailure) =>
         pc' = "Failed" /\ failure' = SearchFailure(geo')
    \* Aggregation: only after a successful search.
    /\ (idx' # idx \/ lat_longs' # lat_longs \/ captions' # captions
          \/ thumbnails' # thumbnails \/ tiles' # tiles) =>
         /\ Len(posted') = 1
         /\ geo' # NoReply
         /\ SearchFailure(geo') = NoFailure
         /\ StageRank(pc) \in {2, 3}

\* C14: every run moves forward through Start, IntentExtracted, PayloadBuilt,
\* SearchCompleted, ResultsAggregated, Done and never back; the assistant is
\* called at most once and only before the payload is built, geosearch at
\* most once and only after it, aggregation starts only after a successful
\* search, and a fatal search error ends the run with no aggregation and no
\* second attempt.
C14_StagesOnlyForward == [][C14_Step]_vars

\* A run that called the assistant, called geosearch, aggregated tiles and
\* responded.
C14_Witness ==
    /\ pc = "Done"
    /\ assistantCalls = 1
    /\ Len(posted) = 1
    /\ idx >= 1
    /\ Len(lat_longs) >= 1

====
